---------------------------- MODULE Spec2Model ----------------------------
(***************************************************************************)
(* Model of the submission engine of inscribememaybe (src/src/main.rs):    *)
(* struct Inscriber, its Stream::poll_next, and the consumer loop of       *)
(* MintArgs::run_mint that drives it.                                      *)
(*                                                                         *)
(* poll_next is one synchronous function with a loop; the model follows    *)
(* its control points with pc:                                             *)
(*   "caller" : outside poll_next (before the first poll, or after a       *)
(*              return; ret holds the value of the last return)            *)
(*   "check"  : top of the loop, line 339                                  *)
(*   "fill"   : the while loop of lines 344-349                            *)
(*   "poll"   : this.pending.poll_next_unpin(cx), line 351                 *)
(* A task (lines 317-324) is a future: it runs, and completes with its      *)
(* InscriptionResult, only while the in-flight set is polled at line 351.  *)
(* Which task completes there, if any, and with which outcome, is decided  *)
(* by the network: the model chooses it nondeterministically.              *)
(***************************************************************************)
EXTENDS Integers, Sequences, FiniteSets

\* ------------------------------------------------------------------ bounds
MaxTransactions == 3
MaxConcurrency == 3
MaxInitialNonce == 1
\* the longest string given for a number in a JSON text
MaxDigits == 2

\* ------------------------------------------------------- program constants
\* .gas(22200)
GasLimit == 22200

\* inputs of run_mint
Senders == {"0xa11ce"}
ChainIds == {5}
Calldatas == {"data:,mintA", "data:,mintB"}

\* res of an InscriptionResult: Ok(Some(receipt)) | Ok(None) | Err(err)
Confirmed == "Confirmed"
NoReceipt == "NoReceipt"
Failed == "Failed"

VARIABLES
    pending,          \* Inscriber.pending: the in-flight tasks, in push order
    calldata,         \* Inscriber.calldata
    sender,           \* Inscriber.sender
    count,            \* Inscriber.count
    highest_nonce,    \* Inscriber.highest_nonce (the next nonce to use)
    max_transactions, \* Inscriber.max_transactions
    concurrency,      \* Inscriber.concurrency
    chain_id,         \* Inscriber.chain_id
    nonce,            \* run_mint's `nonce`: the transaction count fetched once
    pc,               \* control point of poll_next
    ret,              \* last value returned by poll_next
    last,             \* the InscriptionResult taken from pending in this poll
    events,           \* the events the consumer loop has received, in order
    confirmed,        \* nonce of the InscriptionResult behind each event
    call,             \* the function of lib.rs being applied ("none": none)
    json,             \* the JSON text given to serde_json::from_str
    parsed,           \* <<>>, or the Result of serde_json::from_str::<T>(json)
    written,          \* serde_json::to_string of the parsed value
    cdata,            \* calldata_string() of the parsed value
    op_val,           \* the Op given to to_string
    op_in,            \* the string given to Op::from_str
    op_res            \* <<>>, or the Result of Op::from_str(op_in)

\* the engine's state
engine == <<pending, calldata, sender, count, highest_nonce, max_transactions,
            concurrency, chain_id, nonce, pc, ret, last, events, confirmed>>

\* the state of an application of the payload encoding
codec == <<call, json, parsed, written, cdata, op_val, op_in, op_res>>

vars == <<engine, codec>>

config == <<calldata, sender, max_transactions, concurrency, chain_id, nonce>>

\* ---------------------------------------------------------------- helpers
RemoveAt(s, i) == SubSeq(s, 1, i - 1) \o SubSeq(s, i + 1, Len(s))

\* the nonces of the tasks in flight
PendingNonces == {pending[i].nonce : i \in 1..Len(pending)}

\* the hash of the broadcast transaction: an injective image of the descriptor
TxHash(tx) == <<"hash", tx.to, tx.nonce, tx.data>>

\* the receipt the chain returns for a confirmed transaction
Receipt(tx) == [transaction_hash |-> TxHash(tx), to |-> tx.to]

\* next_transaction that numbers the transaction by count
next_transaction_by_count ==
    [to |-> sender, value |-> 0, gas |-> GasLimit,
     nonce |-> count, data |-> calldata]

\* next_transaction that sets the prefix alone as data
next_transaction_prefix_only ==
    [to |-> sender, value |-> 0, gas |-> GasLimit,
     nonce |-> highest_nonce, data |-> "data:,"]

\* Inscriber::next_transaction
next_transaction ==
    [to |-> sender, value |-> 0, gas |-> GasLimit,
     nonce |-> highest_nonce, data |-> calldata]

\* Inscriber::start_transaction: the in-flight set after pushing a task for tx
start_transaction(p, tx) ==
    Append(p, [tx |-> tx, nonce |-> tx.nonce])

\* InscriptionEvent::Mint built in the Ok(Some(receipt)) arm
MintEvent(receipt) ==
    [receipt |-> receipt, sender |-> sender, chain_id |-> chain_id,
     calldata |-> calldata]

\* no function of lib.rs is being applied
CodecIdle ==
    /\ call = "none"
    /\ json = <<>>
    /\ parsed = <<>>
    /\ written = <<>>
    /\ cdata = <<>>
    /\ op_val = "none"
    /\ op_in = <<>>
    /\ op_res = <<>>

\* Init with the Inscriber built with highest_nonce: nonce + 1
InitSkipsNonce ==
    /\ pending = <<>>
    /\ calldata \in Calldatas
    /\ sender \in Senders
    /\ count = 0
    /\ nonce \in 0..MaxInitialNonce
    /\ highest_nonce = nonce + 1
    /\ max_transactions \in 1..MaxTransactions
    /\ concurrency \in 1..MaxConcurrency
    /\ chain_id \in ChainIds
    /\ pc = "caller"
    /\ ret = "Init"
    /\ last = <<>>
    /\ events = <<>>
    /\ confirmed = <<>>
    /\ CodecIdle

\* ------------------------------------------------------------------- Init
Init ==
    /\ pending = <<>>
    /\ calldata \in Calldatas
    /\ sender \in Senders
    /\ count = 0
    /\ nonce \in 0..MaxInitialNonce
    /\ highest_nonce = nonce
    /\ max_transactions \in 1..MaxTransactions
    /\ concurrency \in 1..MaxConcurrency
    /\ chain_id \in ChainIds
    /\ pc = "caller"
    /\ ret = "Init"
    /\ last = <<>>
    /\ events = <<>>
    /\ confirmed = <<>>
    /\ CodecIdle

\* ---------------------------------------------------------------- actions
\* The consumer calls inscriber.next().await: poll_next is entered.  This is
\* the first poll, the poll after an event, a poll after a wake-up that
\* follows Poll::Pending, or a further poll of the ended stream.
PollStart ==
    /\ pc = "caller"
    /\ pc' = "check"
    /\ last' = <<>>
    /\ UNCHANGED <<pending, count, highest_nonce, ret, events, confirmed, config, codec>>

\* IsDone with the in-flight check forgotten
IsDoneIgnoresPending == count >= max_transactions

\* IsDone with > for >=
IsDoneStrict == count > max_transactions /\ pending = <<>>

\* line 339
IsDone == count >= max_transactions /\ pending = <<>>

\* CheckDone that also rewinds the counter for another run
CheckDoneRewinds ==
    /\ pc = "check"
    /\ IsDone
    /\ pc' = "caller"
    /\ ret' = "None"
    /\ count' = 0
    /\ UNCHANGED <<pending, highest_nonce, last, events, confirmed, config, codec>>

\* lines 339-342: return Poll::Ready(None)
CheckDone ==
    /\ pc = "check"
    /\ IsDone
    /\ pc' = "caller"
    /\ ret' = "None"
    /\ UNCHANGED <<pending, count, highest_nonce, last, events, confirmed, config, codec>>

CheckContinue ==
    /\ pc = "check"
    /\ ~IsDone
    /\ pc' = "fill"
    /\ UNCHANGED <<pending, count, highest_nonce, ret, last, events, confirmed, config, codec>>

\* HasCapacity with <= for <
HasCapacityOffByOne == Len(pending) <= concurrency /\ count < max_transactions

\* line 344: the condition of the while loop
HasCapacity == Len(pending) < concurrency /\ count < max_transactions

\* Fill with the nonce increment forgotten
FillSameNonce ==
    /\ pc = "fill"
    /\ HasCapacity
    /\ pending' = start_transaction(pending, next_transaction)
    /\ count' = count + 1
    /\ UNCHANGED <<highest_nonce, pc, ret, last, events, confirmed, config, codec>>

\* lines 345-348: one iteration of the while loop
Fill ==
    /\ pc = "fill"
    /\ HasCapacity
    /\ pending' = start_transaction(pending, next_transaction)
    /\ highest_nonce' = highest_nonce + 1
    /\ count' = count + 1
    /\ UNCHANGED <<pc, ret, last, events, confirmed, config, codec>>

\* FillEnd that leaves the loop whether or not there is capacity left (an
\* `if` for the `while`)
FillEndAnytime ==
    /\ pc = "fill"
    /\ pc' = "poll"
    /\ UNCHANGED <<pending, count, highest_nonce, ret, last, events, confirmed, config, codec>>

FillEnd ==
    /\ pc = "fill"
    /\ ~HasCapacity
    /\ pc' = "poll"
    /\ UNCHANGED <<pending, count, highest_nonce, ret, last, events, confirmed, config, codec>>

\* PollNotReady that gives up on the oldest task when nothing has completed
PollNotReadyTimesOut ==
    /\ pc = "poll"
    /\ pending # <<>>
    /\ pending' = Tail(pending)
    /\ pc' = "check"
    /\ UNCHANGED <<count, highest_nonce, ret, last, events, confirmed, config, codec>>

\* line 351: poll_next_unpin completes no task.  An empty FuturesUnordered
\* yields Ready(None), the `if let` does not match and the loop goes round;
\* otherwise ready! returns Poll::Pending.
PollNotReady ==
    /\ pc = "poll"
    /\ IF pending = <<>>
         THEN pc' = "check" /\ ret' = ret
         ELSE pc' = "caller" /\ ret' = "Pending"
    /\ UNCHANGED <<pending, count, highest_nonce, last, events, confirmed, config, codec>>

\* line 323: the InscriptionResult a task completes with
Result(t, o) == [tx |-> t.tx, nonce |-> t.nonce, res |-> o]

\* PollConfirmed over an ordered queue: only the lowest nonce in flight can
\* be the next to yield
PollConfirmedInOrder(i) ==
    /\ pc = "poll"
    /\ i \in 1..Len(pending)
    /\ \A j \in 1..Len(pending) : pending[i].nonce <= pending[j].nonce
    /\ last' = <<Result(pending[i], Confirmed)>>
    /\ pending' = RemoveAt(pending, i)
    /\ events' = Append(events, MintEvent(Receipt(pending[i].tx)))
    /\ confirmed' = Append(confirmed, pending[i].nonce)
    /\ pc' = "caller"
    /\ ret' = "Some"
    /\ UNCHANGED <<count, highest_nonce, config, codec>>

\* PollConfirmed that leaves the confirmed task in the in-flight set
PollConfirmedKeepsTask(i) ==
    /\ pc = "poll"
    /\ i \in 1..Len(pending)
    /\ last' = <<Result(pending[i], Confirmed)>>
    /\ events' = Append(events, MintEvent(Receipt(pending[i].tx)))
    /\ confirmed' = Append(confirmed, pending[i].nonce)
    /\ pc' = "caller"
    /\ ret' = "Some"
    /\ UNCHANGED <<pending, count, highest_nonce, config, codec>>

\* PollConfirmed that fills the freed slot before it returns the event
PollConfirmedRefills(i) ==
    /\ pc = "poll"
    /\ i \in 1..Len(pending)
    /\ last' = <<Result(pending[i], Confirmed)>>
    /\ IF count < max_transactions
         THEN /\ pending' = start_transaction(RemoveAt(pending, i), next_transaction)
              /\ highest_nonce' = highest_nonce + 1
              /\ count' = count + 1
         ELSE /\ pending' = RemoveAt(pending, i)
              /\ UNCHANGED <<count, highest_nonce>>
    /\ events' = Append(events, MintEvent(Receipt(pending[i].tx)))
    /\ confirmed' = Append(confirmed, pending[i].nonce)
    /\ pc' = "caller"
    /\ ret' = "Some"
    /\ UNCHANGED <<config, codec>>

\* lines 351-362: poll_next_unpin completes task i with Ok(Some(receipt));
\* the event is returned
PollConfirmed(i) ==
    /\ pc = "poll"
    /\ i \in 1..Len(pending)
    /\ last' = <<Result(pending[i], Confirmed)>>
    /\ pending' = RemoveAt(pending, i)
    /\ events' = Append(events, MintEvent(Receipt(pending[i].tx)))
    /\ confirmed' = Append(confirmed, pending[i].nonce)
    /\ pc' = "caller"
    /\ ret' = "Some"
    /\ UNCHANGED <<count, highest_nonce, config, codec>>

\* RetryTx that builds the transaction anew instead of reusing the result's
RetryTxRebuilt(r) == next_transaction

\* lines 365 and 370: the transaction that is sent again
RetryTx(r) == r.tx

\* PollRetry that pushes the new attempt and leaves the completed one in place
PollRetryKeepsOld(i, o) ==
    /\ pc = "poll"
    /\ i \in 1..Len(pending)
    /\ o \in {NoReceipt, Failed}
    /\ last' = <<Result(pending[i], o)>>
    /\ pending' = start_transaction(pending, pending[i].tx)
    /\ pc' = "check"
    /\ UNCHANGED <<count, highest_nonce, ret, events, confirmed, config, codec>>

\* PollRetry that treats Err(err) as fatal and ends the run with it
PollRetryPropagates(i, o) ==
    /\ pc = "poll"
    /\ i \in 1..Len(pending)
    /\ o \in {NoReceipt, Failed}
    /\ last' = <<Result(pending[i], o)>>
    /\ IF o = Failed
         THEN pending' = RemoveAt(pending, i) /\ pc' = "failed"
         ELSE pending' = start_transaction(RemoveAt(pending, i), pending[i].tx)
              /\ pc' = "check"
    /\ UNCHANGED <<count, highest_nonce, ret, events, confirmed, config, codec>>

\* PollRetry that counts the attempt as a sent transaction
PollRetryCounts(i, o) ==
    /\ pc = "poll"
    /\ i \in 1..Len(pending)
    /\ o \in {NoReceipt, Failed}
    /\ last' = <<Result(pending[i], o)>>
    /\ pending' = start_transaction(RemoveAt(pending, i), pending[i].tx)
    /\ count' = count + 1
    /\ pc' = "check"
    /\ UNCHANGED <<highest_nonce, ret, events, confirmed, config, codec>>

\* PollRetry that takes a fresh nonce for the attempt
PollRetryNewNonce(i, o) ==
    /\ pc = "poll"
    /\ i \in 1..Len(pending)
    /\ o \in {NoReceipt, Failed}
    /\ last' = <<Result(pending[i], o)>>
    /\ pending' = start_transaction(RemoveAt(pending, i), pending[i].tx)
    /\ highest_nonce' = highest_nonce + 1
    /\ pc' = "check"
    /\ UNCHANGED <<count, ret, events, confirmed, config, codec>>

\* PollRetry that logs the failure and does not send again
PollRetryDrops(i, o) ==
    /\ pc = "poll"
    /\ i \in 1..Len(pending)
    /\ o \in {NoReceipt, Failed}
    /\ last' = <<Result(pending[i], o)>>
    /\ pending' = RemoveAt(pending, i)
    /\ pc' = "check"
    /\ UNCHANGED <<count, highest_nonce, ret, events, confirmed, config, codec>>

\* lines 351-353, 363-371: poll_next_unpin completes task i with Ok(None) or
\* Err(err); the same transaction is started again and the loop goes round
PollRetry(i, o) ==
    /\ pc = "poll"
    /\ i \in 1..Len(pending)
    /\ o \in {NoReceipt, Failed}
    /\ last' = <<Result(pending[i], o)>>
    /\ pending' = start_transaction(RemoveAt(pending, i), RetryTx(Result(pending[i], o)))
    /\ pc' = "check"
    /\ UNCHANGED <<count, highest_nonce, ret, events, confirmed, config, codec>>

\* the steps of poll_next in which a task completes
Resolution ==
    \/ \E i \in 1..Len(pending) : PollConfirmed(i)
    \/ \E i \in 1..Len(pending) : \E o \in {NoReceipt, Failed} : PollRetry(i, o)

Next ==
    \/ PollStart
    \/ CheckDone
    \/ CheckContinue
    \/ Fill
    \/ FillEnd
    \/ PollNotReady
    \/ Resolution

Spec == Init /\ [][Next]_vars

\* The steps the consumer and poll_next take on their own: run_mint keeps
\* calling next() (lines 147-148) and poll_next runs to its return.
Polling ==
    \/ PollStart
    \/ CheckDone
    \/ CheckContinue
    \/ Fill
    \/ FillEnd
    \/ PollNotReady

FairNext == Polling \/ Resolution

\* The consumer keeps polling, and the network lets in-flight tasks complete
\* (with any outcome).
FairSpec == Init /\ [][FairNext]_vars /\ WF_vars(Polling) /\ SF_vars(Resolution)

\* ------------------------------------------------- run_mint before the loop
\* Chain::mainnet()
MainnetId == 1

\* the chain ids the provider may report
StartupChainIds == ChainIds \cup {MainnetId}

\* the control points of run_mint before the Inscriber exists (lines 100-128);
\* "failed" is run_mint returned with Err, "declined" is run_mint returned
\* Ok(()) because the user did not confirm
StartupStages ==
    {"connect", "chainid", "confirm_mainnet", "confirm_id", "wallet", "nonce"}

\* run_mint is entered with its arguments (transactions, concurrency, the
\* message); nothing has been fetched and there is no Inscriber
StartupInit ==
    /\ pending = <<>>
    /\ calldata \in Calldatas
    /\ sender = ""
    /\ count = 0
    /\ nonce = 0
    /\ highest_nonce = 0
    /\ max_transactions \in 1..MaxTransactions
    /\ concurrency \in 1..MaxConcurrency
    /\ chain_id = 0
    /\ pc = "connect"
    /\ ret = "Init"
    /\ last = <<>>
    /\ events = <<>>
    /\ confirmed = <<>>
    /\ CodecIdle

\* what a startup step leaves alone besides pc and the value it fetches
StartupFrame ==
    UNCHANGED <<pending, calldata, count, highest_nonce, max_transactions,
                concurrency, ret, last, events, confirmed, codec>>

\* the `?` of a startup step: run_mint returns the error
Abort == pc' = "failed" /\ UNCHANGED <<sender, chain_id, nonce>> /\ StartupFrame

\* line 100: Database::connect().await?
ConnectDb ==
    /\ pc = "connect"
    /\ \/ pc' = "chainid" /\ UNCHANGED <<sender, chain_id, nonce>> /\ StartupFrame
       \/ Abort

\* line 102: provider.get_chainid().await?
GetChainId ==
    /\ pc = "chainid"
    /\ \/ /\ chain_id' \in StartupChainIds
          /\ pc' = "confirm_mainnet"
          /\ UNCHANGED <<sender, nonce>>
          /\ StartupFrame
       \/ Abort

\* lines 103-113: on mainnet the user is asked; read_line may fail
ConfirmMainnet ==
    /\ pc = "confirm_mainnet"
    /\ IF chain_id = MainnetId
         THEN \/ pc' = "confirm_id" /\ UNCHANGED <<sender, chain_id, nonce>> /\ StartupFrame
              \/ pc' = "declined" /\ UNCHANGED <<sender, chain_id, nonce>> /\ StartupFrame
              \/ Abort
         ELSE pc' = "confirm_id" /\ UNCHANGED <<sender, chain_id, nonce>> /\ StartupFrame

\* lines 115-123: with more than one transaction and a message that has an id
\* (id_given) the user is asked; read_line may fail
ConfirmSameId ==
    /\ pc = "confirm_id"
    /\ \E id_given \in BOOLEAN :
          IF max_transactions > 1 /\ id_given
            THEN \/ pc' = "wallet" /\ UNCHANGED <<sender, chain_id, nonce>> /\ StartupFrame
                 \/ pc' = "declined" /\ UNCHANGED <<sender, chain_id, nonce>> /\ StartupFrame
                 \/ Abort
            ELSE pc' = "wallet" /\ UNCHANGED <<sender, chain_id, nonce>> /\ StartupFrame

\* lines 125-127: self.private_key.parse::<LocalWallet>()?
ParseWallet ==
    /\ pc = "wallet"
    /\ \/ /\ sender' \in Senders
          /\ pc' = "nonce"
          /\ UNCHANGED <<chain_id, nonce>>
          /\ StartupFrame
       \/ Abort

\* lines 128-145: provider.get_transaction_count(..).await?, then the
\* Inscriber is built with highest_nonce = nonce and count = 0
GetTransactionCount ==
    /\ pc = "nonce"
    /\ \/ /\ nonce' \in 0..MaxInitialNonce
          /\ highest_nonce' = nonce'
          /\ count' = 0
          /\ pending' = <<>>
          /\ pc' = "caller"
          /\ UNCHANGED <<calldata, sender, max_transactions, concurrency,
                         chain_id, ret, last, events, confirmed, codec>>
       \/ Abort

Startup ==
    \/ ConnectDb
    \/ GetChainId
    \/ ConfirmMainnet
    \/ ConfirmSameId
    \/ ParseWallet
    \/ GetTransactionCount

StartupNext == Startup \/ Next

\* run_mint from its entry
StartupSpec == StartupInit /\ [][StartupNext]_vars

\* ------------------------------------------- payload encoding (src/lib.rs)
\* A string is the sequence of its characters.  A Result is Ok(v) or Err.
Ok(v) == [ok |-> TRUE, v |-> v]
Err == [ok |-> FALSE]

\* CALL_DATA_PREFIX
CALL_DATA_PREFIX == "data:,"

AsciiUpper ==
    <<"A", "B", "C", "D", "E", "F", "G", "H", "I", "J", "K", "L", "M",
      "N", "O", "P", "Q", "R", "S", "T", "U", "V", "W", "X", "Y", "Z">>
AsciiLower ==
    <<"a", "b", "c", "d", "e", "f", "g", "h", "i", "j", "k", "l", "m",
      "n", "o", "p", "q", "r", "s", "t", "u", "v", "w", "x", "y", "z">>

\* char::to_lowercase: an ASCII capital maps to its small letter, U+0130
\* (capital I with dot above) to "i" followed by U+0307, the other characters
\* of the model's alphabet to themselves
to_lowercase_char(c) ==
    IF \E i \in 1..Len(AsciiUpper) : AsciiUpper[i] = c
      THEN <<AsciiLower[CHOOSE i \in 1..Len(AsciiUpper) : AsciiUpper[i] = c]>>
      ELSE IF c = "U+0130" THEN <<"i", "U+0307">> ELSE <<c>>

\* str::to_lowercase
RECURSIVE to_lowercase(_)
to_lowercase(s) ==
    IF s = <<>> THEN <<>>
    ELSE to_lowercase_char(Head(s)) \o to_lowercase(Tail(s))

\* enum Op
Ops == {"Deploy", "Mint", "Transfer"}

\* impl fmt::Display for Op
OpToString(op) ==
    CASE op = "Deploy" -> <<"d", "e", "p", "l", "o", "y">>
      [] op = "Mint" -> <<"m", "i", "n", "t">>
      [] op = "Transfer" -> <<"t", "r", "a", "n", "s", "f", "e", "r">>

\* Op::from_str that compares the string as it is
OpFromStrCaseSensitive(s) ==
    CASE s = <<"d", "e", "p", "l", "o", "y">> -> Ok("Deploy")
      [] s = <<"m", "i", "n", "t">> -> Ok("Mint")
      [] s = <<"t", "r", "a", "n", "s", "f", "e", "r">> -> Ok("Transfer")
      [] OTHER -> Err

\* impl FromStr for Op
OpFromStr(s) ==
    LET l == to_lowercase(s) IN
    CASE l = <<"d", "e", "p", "l", "o", "y">> -> Ok("Deploy")
      [] l = <<"m", "i", "n", "t">> -> Ok("Mint")
      [] l = <<"t", "r", "a", "n", "s", "f", "e", "r">> -> Ok("Transfer")
      [] OTHER -> Err

DecimalDigits == <<"0", "1", "2", "3", "4", "5", "6", "7", "8", "9">>

IsDigit(c) == \E i \in 1..Len(DecimalDigits) : DecimalDigits[i] = c

\* char::to_digit(10) of a decimal digit
DigitValue(c) == (CHOOSE i \in 1..Len(DecimalDigits) : DecimalDigits[i] = c) - 1

\* the number a non-empty sequence of decimal digits denotes
RECURSIVE DigitsValue(_)
DigitsValue(d) ==
    IF Len(d) = 1 THEN DigitValue(d[1])
    ELSE 10 * DigitsValue(SubSeq(d, 1, Len(d) - 1)) + DigitValue(d[Len(d)])

\* u64::from_str: the empty string and a lone sign are errors, one leading
\* "+" is skipped ("-" is not a sign of an unsigned type), every other
\* character must be a decimal digit.  (The strings of the model are too
\* short to exceed u64::MAX, so the overflow error does not arise.)
ParseU64(s) ==
    IF s = <<>> THEN Err
    ELSE IF Len(s) = 1 /\ s[1] \in {"+", "-"} THEN Err
    ELSE LET d == IF s[1] = "+" THEN Tail(s) ELSE s IN
         IF \E i \in 1..Len(d) : ~IsDigit(d[i]) THEN Err
         ELSE Ok(DigitsValue(d))

\* u64::to_string
RECURSIVE U64ToString(_)
U64ToString(n) ==
    IF n < 10 THEN <<DecimalDigits[n + 1]>>
    ELSE U64ToString(n \div 10) \o <<DecimalDigits[(n % 10) + 1]>>

\* A JSON text is modelled by its content: an object is the sequence of its
\* fields in the order they are written, a field is a key and a value, a
\* value is a string, an integer number, null, or an array of objects.
Field(k, v) == [k |-> k, v |-> v]
Str(s) == [t |-> "str", s |-> s]
Num(n) == [t |-> "num", n |-> n]
Null == [t |-> "null"]
Arr(a) == [t |-> "arr", a |-> a]

HasKey(j, k) == \E i \in 1..Len(j) : j[i].k = k

\* the value of the first field with key k
Get(j, k) == j[CHOOSE i \in 1..Len(j) : j[i].k = k /\ \A h \in 1..(i - 1) : j[h].k # k].v

\* a field of the struct is written twice: derive(Deserialize) reports
\* "duplicate field"
Duplicate(j, ks) ==
    \E i, h \in 1..Len(j) : i # h /\ j[i].k = j[h].k /\ j[i].k \in ks

\* a field of the struct is not written: "missing field"
Missing(j, ks) == \E k \in ks : ~HasKey(j, k)

\* String::deserialize
DeserializeString(tok) == IF tok.t = "str" THEN Ok(tok.s) ELSE Err

\* Option<String> as a field: None when absent or null
DeserializeOptionString(j, k) ==
    IF ~HasKey(j, k) \/ Get(j, k).t = "null" THEN Ok(<<>>)
    ELSE IF Get(j, k).t = "str" THEN Ok(<<Get(j, k).s>>)
    ELSE Err

\* serde_as DisplayFromStr for u64: a JSON string, parsed by u64::from_str
DeserializeU64(tok) == IF tok.t = "str" THEN ParseU64(tok.s) ELSE Err

\* impl Deserialize for Op
DeserializeOp(tok) == IF tok.t = "str" THEN OpFromStr(tok.s) ELSE Err

\* the names of enum NamedProtocol under rename_all = "kebab-case"
NamedProtocols ==
    {<<"b", "s", "c", "-", "2", "0">>,
     <<"a", "s", "c", "-", "2", "0">>,
     <<"p", "r", "c", "-", "2", "0">>,
     <<"z", "r", "c", "-", "2", "0">>,
     <<"e", "r", "c", "-", "2", "0">>,
     <<"g", "r", "c", "-", "2", "0">>,
     <<"f", "a", "i", "r", "-", "2", "0">>,
     <<"o", "p", "r", "c", "-", "2", "0">>,
     <<"o", "s", "c", "-", "2", "0">>,
     <<"b", "r", "c", "-", "2", "0">>,
     <<"f", "r", "c", "-", "2", "0">>,
     <<"n", "i", "r", "c", "-", "2", "0">>,
     <<"z", "s", "c", "-", "2", "0">>,
     <<"v", "i", "m", "s", "-", "2", "0">>,
     <<"e", "r", "a", "-", "2", "0">>,
     <<"b", "n", "b", "-", "4", "8">>,
     <<"g", "n", "o", "-", "2", "0">>,
     <<"t", "e", "r", "c", "-", "2", "0">>,
     <<"n", "r", "c", "-", "2", "0">>,
     <<"b", "e", "p", "-", "2", "0">>,
     <<"b", "n", "b", "-", "2", "0">>,
     <<"c", "l", "s", "-", "2", "0">>,
     <<"b", "a", "s", "e", "-", "2", "0">>,
     <<"e", "r", "c", "-", "c", "a", "s", "h">>,
     <<"b", "n", "b", "s", "-", "2", "0">>,
     <<"f", "t", "m", "-", "2", "0">>}

\* derive(Deserialize) of the untagged ProtocolKind: Named if the string is
\* the name of a NamedProtocol, else Other
DeserializeProtocol(tok) ==
    IF tok.t # "str" THEN Err
    ELSE IF tok.s \in NamedProtocols THEN Ok([kind |-> "Named", id |-> tok.s])
    ELSE Ok([kind |-> "Other", id |-> tok.s])

\* derive(Serialize) of Protocol / ProtocolKind / NamedProtocol
SerializeProtocol(p) == Str(p.id)

\* the fields derive(Deserialize) requires of DeployOp, MintOp, TransferOp
\* and TransferItem (an Option field may be absent)
DeployFields == {"p", "op", "tick", "max", "lim"}
MintFields == {"p", "op", "tick", "amt"}
TransferFields == {"p", "op", "tick", "to"}
TransferItemFields == {"recv", "amt"}

\* impl Serialize for Deploy that writes lim before max
DeploySerializeLimFirst(d) ==
    << Field("p", SerializeProtocol(d.p)),
       Field("op", Str(<<"d", "e", "p", "l", "o", "y">>)),
       Field("tick", Str(d.tick)),
       Field("lim", Str(U64ToString(d.lim))),
       Field("max", Str(U64ToString(d.max))) >>

\* impl Serialize for Deploy
DeploySerialize(d) ==
    << Field("p", SerializeProtocol(d.p)),
       Field("op", Str(<<"d", "e", "p", "l", "o", "y">>)),
       Field("tick", Str(d.tick)),
       Field("max", Str(U64ToString(d.max))),
       Field("lim", Str(U64ToString(d.lim))) >>

\* impl Deserialize for Deploy without the is_deploy test
DeployDeserializeAnyOp(j) ==
    IF Duplicate(j, DeployFields) \/ Missing(j, DeployFields) THEN Err
    ELSE LET p == DeserializeProtocol(Get(j, "p"))
             op == DeserializeOp(Get(j, "op"))
             tick == DeserializeString(Get(j, "tick"))
             max == DeserializeU64(Get(j, "max"))
             lim == DeserializeU64(Get(j, "lim"))
         IN IF ~(p.ok /\ op.ok /\ tick.ok /\ max.ok /\ lim.ok) THEN Err
            ELSE Ok([p |-> p.v, tick |-> tick.v, max |-> max.v, lim |-> lim.v])

\* impl Deserialize for Deploy
DeployDeserialize(j) ==
    IF Duplicate(j, DeployFields) \/ Missing(j, DeployFields) THEN Err
    ELSE LET p == DeserializeProtocol(Get(j, "p"))
             op == DeserializeOp(Get(j, "op"))
             tick == DeserializeString(Get(j, "tick"))
             max == DeserializeU64(Get(j, "max"))
             lim == DeserializeU64(Get(j, "lim"))
         IN IF ~(p.ok /\ op.ok /\ tick.ok /\ max.ok /\ lim.ok) THEN Err
            ELSE IF op.v # "Deploy" THEN Err
            ELSE Ok([p |-> p.v, tick |-> tick.v, max |-> max.v, lim |-> lim.v])

\* impl Serialize for Mint: id is written only when it is Some
MintSerialize(m) ==
    << Field("p", SerializeProtocol(m.p)),
       Field("op", Str(<<"m", "i", "n", "t">>)),
       Field("tick", Str(m.tick)) >>
    \o (IF m.id # <<>> THEN <<Field("id", Str(m.id[1]))>> ELSE <<>>)
    \o << Field("amt", Str(U64ToString(m.amt))) >>

\* impl Deserialize for Mint
MintDeserialize(j) ==
    IF Duplicate(j, MintFields \cup {"id"}) \/ Missing(j, MintFields) THEN Err
    ELSE LET p == DeserializeProtocol(Get(j, "p"))
             op == DeserializeOp(Get(j, "op"))
             tick == DeserializeString(Get(j, "tick"))
             id == DeserializeOptionString(j, "id")
             amt == DeserializeU64(Get(j, "amt"))
         IN IF ~(p.ok /\ op.ok /\ tick.ok /\ id.ok /\ amt.ok) THEN Err
            ELSE IF op.v # "Mint" THEN Err
            ELSE Ok([p |-> p.v, tick |-> tick.v, id |-> id.v, amt |-> amt.v])

HexDigits == {DecimalDigits[i] : i \in 1..Len(DecimalDigits)}
             \cup {"a", "b", "c", "d", "e", "f", "A", "B", "C", "D", "E", "F"}

\* Address::deserialize: "0x" and forty hexadecimal digits
IsAddress(s) ==
    /\ Len(s) = 42
    /\ s[1] = "0"
    /\ s[2] = "x"
    /\ \A i \in 3..Len(s) : s[i] \in HexDigits

\* derive(Deserialize) of TransferItem: amt is a JSON number
TransferItemDeserialize(j) ==
    IF Duplicate(j, TransferItemFields) \/ Missing(j, TransferItemFields) THEN Err
    ELSE IF Get(j, "recv").t # "str" \/ Get(j, "amt").t # "num" THEN Err
    ELSE IF ~IsAddress(Get(j, "recv").s) THEN Err
    ELSE Ok([recv |-> to_lowercase(Get(j, "recv").s), amt |-> Get(j, "amt").n])

\* derive(Serialize) of TransferItem: the address is written in lower case
TransferItemSerialize(it) ==
    << Field("recv", Str(it.recv)), Field("amt", Num(it.amt)) >>

\* Vec<TransferItem>::deserialize
TransferItemsDeserialize(tok) ==
    IF tok.t # "arr" THEN Err
    ELSE IF \E i \in 1..Len(tok.a) : ~TransferItemDeserialize(tok.a[i]).ok THEN Err
    ELSE Ok([i \in 1..Len(tok.a) |-> TransferItemDeserialize(tok.a[i]).v])

\* impl Serialize for Transfer
TransferSerialize(x) ==
    << Field("p", SerializeProtocol(x.p)),
       Field("op", Str(<<"t", "r", "a", "n", "s", "f", "e", "r">>)),
       Field("tick", Str(x.tick)),
       Field("to", Arr([i \in 1..Len(x.to) |-> TransferItemSerialize(x.to[i])])) >>

\* impl Deserialize for Transfer
TransferDeserialize(j) ==
    IF Duplicate(j, TransferFields) \/ Missing(j, TransferFields) THEN Err
    ELSE LET p == DeserializeProtocol(Get(j, "p"))
             op == DeserializeOp(Get(j, "op"))
             tick == DeserializeString(Get(j, "tick"))
             to == TransferItemsDeserialize(Get(j, "to"))
         IN IF ~(p.ok /\ op.ok /\ tick.ok /\ to.ok) THEN Err
            ELSE IF op.v # "Transfer" THEN Err
            ELSE Ok([p |-> p.v, tick |-> tick.v, to |-> to.v])

\* the inscription types
Types == {"Deploy", "Mint", "Transfer"}

\* serde_json::from_str::<T>(j)
Deserialize(T, j) ==
    CASE T = "Deploy" -> DeployDeserialize(j)
      [] T = "Mint" -> MintDeserialize(j)
      [] T = "Transfer" -> TransferDeserialize(j)

\* serde_json::to_string(&v) of a value v of type T
Serialize(T, v) ==
    CASE T = "Deploy" -> DeploySerialize(v)
      [] T = "Mint" -> MintSerialize(v)
      [] T = "Transfer" -> TransferSerialize(v)

\* InscriptionCalldata::calldata_string: the buffer starts as the prefix and
\* the JSON is written after it
calldata_string(T, v) == <<CALL_DATA_PREFIX>> \o Serialize(T, v)

\* ------------------------------------------------ inputs of the encoding
\* the characters of the strings given for numbers
NumChars == {"0", "7", "+"}

NumStrings == UNION {[1..n -> NumChars] : n \in 0..MaxDigits}

\* the values given for max: a string, or a JSON number
MaxTokens == {Str(s) : s \in NumStrings} \cup {Num(7)}

\* the values given for lim
LimTokens == {Str(s) : s \in {x \in NumStrings : Len(x) <= 1}}

\* the values given for op
JsonOpNames ==
    {<<"d", "e", "p", "l", "o", "y">>, <<"D", "E", "P", "L", "O", "Y">>, <<"m", "i", "n", "t">>,
     <<"T", "r", "a", "n", "s", "f", "e", "r">>, <<"m", "i", "n", "t", "s">>}

\* the values given for p: a NamedProtocol and another protocol
JsonProtocols == {<<"e", "r", "c", "-", "2", "0">>, <<"f", "o", "o">>}

Tick == <<"g", "w", "e", "i">>

Recipient ==
    <<"0", "x", "8", "D", "4", "E", "4", "E", "e", "4", "3", "5",
     "a", "2", "F", "E", "8", "2", "A", "0", "3", "7", "b", "a",
     "1", "0", "d", "4", "4", "8", "6", "0", "4", "9", "b",
     "A", "D", "b", "C", "d", "B", "2">>

DeployTexts ==
    { << Field("p", Str(p)), Field("op", Str(op)), Field("tick", Str(Tick)),
         Field("max", max), Field("lim", lim) >> :
      p \in JsonProtocols, op \in JsonOpNames, max \in MaxTokens, lim \in LimTokens }

MintTexts ==
    { << Field("p", Str(p)), Field("op", Str(op)), Field("tick", Str(Tick)) >>
      \o id \o << Field("amt", Str(amt)) >> :
      p \in JsonProtocols, op \in JsonOpNames,
      id \in {<<>>, <<Field("id", Null)>>, <<Field("id", Str(<<"7">>))>>},
      amt \in {<<"7">>, <<"0", "7">>} }

TransferTexts ==
    { << Field("p", Str(p)), Field("op", Str(op)), Field("tick", Str(Tick)),
         Field("to", Arr(to)) >> :
      p \in JsonProtocols, op \in JsonOpNames,
      to \in { <<>>,
               << <<Field("recv", Str(Recipient)), Field("amt", Num(-1000))>> >>,
               << <<Field("recv", Str(Tick)), Field("amt", Num(7))>> >> } }

\* other ways of writing an object: the first two fields exchanged, the first
\* field left out, an unknown field added, the second field written twice
Rewritings(j) ==
    { j,
      <<j[2], j[1]>> \o SubSeq(j, 3, Len(j)),
      Tail(j),
      Append(j, Field("note", Str(Tick))),
      Append(j, j[2]) }

JsonTexts ==
    UNION {Rewritings(j) : j \in DeployTexts} \cup MintTexts \cup TransferTexts

\* char::to_uppercase of a small ASCII letter
to_uppercase_char(c) == AsciiUpper[CHOOSE i \in 1..Len(AsciiLower) : AsciiLower[i] = c]

\* the spellings of the small-letter word w in small and capital letters
RECURSIVE CaseVariants(_)
CaseVariants(w) ==
    IF w = <<>> THEN {<<>>}
    ELSE { <<c>> \o r : c \in {Head(w), to_uppercase_char(Head(w))},
                        r \in CaseVariants(Tail(w)) }

\* the strings that spell the name of op in small and capital letters
Spellings(op) == CaseVariants(OpToString(op))

\* the strings given to Op::from_str: the spellings of the three names and
\* strings that spell none of them
OpInputs ==
    UNION {Spellings(op) : op \in Ops}
    \cup { <<>>, <<"i", "n", "v", "a", "l", "i", "d">>, <<"m", "i", "n", "t", "s">>, <<"m", "i", "n">>,
           <<" ", "m", "i", "n", "t">>, <<"m", "U+0130", "n", "t">> }

\* ------------------------------------------- applications of the encoding
\* one function of lib.rs is applied to one input; there is no Inscriber
CodecInit ==
    /\ pending = <<>>
    /\ calldata = ""
    /\ sender = ""
    /\ count = 0
    /\ nonce = 0
    /\ highest_nonce = 0
    /\ max_transactions = 1
    /\ concurrency = 1
    /\ chain_id = 0
    /\ pc = "lib"
    /\ ret = "Init"
    /\ last = <<>>
    /\ events = <<>>
    /\ confirmed = <<>>
    /\ parsed = <<>>
    /\ written = <<>>
    /\ cdata = <<>>
    /\ op_res = <<>>
    /\ \/ call = "from_str" /\ json \in JsonTexts /\ op_val = "none" /\ op_in = <<>>
       \/ call = "op_from_str" /\ json = <<>> /\ op_val = "none" /\ op_in \in OpInputs
       \/ call = "op_to_string" /\ json = <<>> /\ op_val \in Ops /\ op_in = <<>>

\* serde_json::from_str::<T>(json)
CallFromJson(T) ==
    /\ call = "from_str"
    /\ parsed = <<>>
    /\ parsed' = <<[ty |-> T, res |-> Deserialize(T, json)]>>
    /\ UNCHANGED <<engine, call, json, written, cdata, op_val, op_in, op_res>>

\* serde_json::to_string(&operation) of the value parsed
CallToString ==
    /\ parsed # <<>>
    /\ parsed[1].res.ok
    /\ written = <<>>
    /\ written' = Serialize(parsed[1].ty, parsed[1].res.v)
    /\ UNCHANGED <<engine, call, json, parsed, cdata, op_val, op_in, op_res>>

\* operation.calldata_string() of the value parsed
CallCalldataString ==
    /\ parsed # <<>>
    /\ parsed[1].res.ok
    /\ cdata = <<>>
    /\ cdata' = calldata_string(parsed[1].ty, parsed[1].res.v)
    /\ UNCHANGED <<engine, call, json, parsed, written, op_val, op_in, op_res>>

\* op.to_string(), whose result is then given to Op::from_str
CallOpToString ==
    /\ call = "op_to_string"
    /\ op_in' = OpToString(op_val)
    /\ call' = "op_from_str"
    /\ UNCHANGED <<engine, json, parsed, written, cdata, op_val, op_res>>

\* Op::from_str(op_in)
CallOpFromStr ==
    /\ call = "op_from_str"
    /\ op_res = <<>>
    /\ op_res' = <<OpFromStr(op_in)>>
    /\ UNCHANGED <<engine, call, json, parsed, written, cdata, op_val, op_in>>

CodecNext ==
    \/ \E T \in Types : CallFromJson(T)
    \/ CallToString
    \/ CallCalldataString
    \/ CallOpToString
    \/ CallOpFromStr

\* the functions of lib.rs applied to bounded inputs
CodecSpec == CodecInit /\ [][CodecNext]_vars

\* ------------------------------------------------------------- properties
\* the step of poll_next that dispatches an Ok(None) or Err(err) result
RetryStep == pc = "poll" /\ pc' = "check" /\ pending # <<>>

\* the last completed task, if any, was retried
Retried == last # <<>> /\ last[1].res \in {NoReceipt, Failed}

\* the descriptor next_transaction builds for nonce n
Descriptor(n) ==
    [to |-> sender, value |-> 0, gas |-> GasLimit, nonce |-> n, data |-> calldata]

\* the nonces allocated so far
Allocated == {n \in nonce..highest_nonce : n < highest_nonce}

\* C1: the number of in-flight tasks never exceeds the concurrency limit, in
\* every state, also right after a failed task is resubmitted.
C1_InFlightBounded == Len(pending) <= concurrency

C1_Witness ==
    /\ Retried
    /\ last[1].res = Failed
    /\ pc = "check"
    /\ concurrency >= 2
    /\ Len(pending) = concurrency

\* C2: the events emitted so far belong to pairwise distinct nonces, every
\* one of them in [nonce, nonce + max_transactions), and there are at most
\* max_transactions of them.
C2_EventsDistinctInRange ==
    /\ \A i, j \in 1..Len(confirmed) : i # j => confirmed[i] # confirmed[j]
    /\ \A i \in 1..Len(confirmed) :
          nonce <= confirmed[i] /\ confirmed[i] < nonce + max_transactions
    /\ Len(events) <= max_transactions

C2_Witness ==
    /\ max_transactions >= 2
    /\ Len(events) = max_transactions
    /\ confirmed[1] > confirmed[2]

\* C3 as stated: whenever the consumer keeps polling, max_transactions events
\* are eventually emitted and the stream ends.
C3_AlwaysCompletes == <>(ret = "None" /\ Len(events) = max_transactions)

\* C3, amended: when the consumer keeps polling, in-flight tasks keep
\* completing, and from some point on no task completes with Ok(None) or
\* Err, max_transactions events are eventually emitted and the stream ends.
C3_CompletesUnlessRetriedForever ==
    (<>[](~Retried)) => <>(ret = "None" /\ Len(events) = max_transactions)

C3_Witness ==
    /\ ret = "None"
    /\ pc = "caller"
    /\ max_transactions >= 2
    /\ Len(events) = max_transactions

\* C4: a step that adds a task to the in-flight set gives it the current
\* highest_nonce and increments highest_nonce by exactly one; every other
\* step, a resubmission included, leaves highest_nonce unchanged.
C4_NoncesIncrease ==
    [][ /\ Len(pending') > Len(pending) =>
             /\ Len(pending') = Len(pending) + 1
             /\ pending'[Len(pending')].nonce = highest_nonce
             /\ pending'[Len(pending')].tx.nonce = highest_nonce
             /\ highest_nonce' = highest_nonce + 1
        /\ Len(pending') <= Len(pending) => highest_nonce' = highest_nonce
        /\ RetryStep => highest_nonce' = highest_nonce
      ]_vars

\* one failed attempt of the only nonce, resubmitted: max_transactions = 1,
\* concurrency = 1
C4_Witness ==
    /\ max_transactions = 1
    /\ concurrency = 1
    /\ Retried
    /\ last[1].res = Failed
    /\ pending = <<[tx |-> Descriptor(nonce), nonce |-> nonce]>>
    /\ highest_nonce = nonce + 1
    /\ count = 1

\* C5: the step that takes an Ok(None) or Err result from the in-flight set
\* puts a task with the very descriptor of the completed task back into the
\* set, and allocates no nonce.
C5_RetryIdentical ==
    [][ RetryStep =>
          /\ last' # <<>>
          /\ last'[1].res \in {NoReceipt, Failed}
          /\ \E i \in 1..Len(pending) :
                /\ pending[i].tx = last'[1].tx
                /\ pending[i].nonce = last'[1].nonce
                /\ pending' = Append(RemoveAt(pending, i), pending[i])
          /\ pending'[Len(pending')].tx = last'[1].tx
          /\ highest_nonce' = highest_nonce
          /\ count' = count
      ]_vars

C5_Witness ==
    /\ Retried
    /\ last[1].res = NoReceipt
    /\ pc = "check"
    /\ Len(pending) >= 2
    /\ pending[Len(pending)].tx = last[1].tx
    /\ pending[1].nonce > last[1].nonce

\* C6 as stated: no two events for one nonce, and every event carries the
\* nonce of the task that confirmed.
C6_EventCarriesNonce ==
    /\ \A i, j \in 1..Len(confirmed) : i # j => confirmed[i] # confirmed[j]
    /\ Len(events) = Len(confirmed)
    /\ \A i \in 1..Len(events) :
          "nonce" \in DOMAIN events[i] /\ events[i].nonce = confirmed[i]

\* C6, amended: one event per confirmed task, no two events for one nonce,
\* and every event carries the receipt of the task that confirmed together
\* with the sender, the chain id and the calldata: it has no nonce field.
C6_OneEventPerNonce ==
    /\ \A i, j \in 1..Len(confirmed) : i # j => confirmed[i] # confirmed[j]
    /\ Len(events) = Len(confirmed)
    /\ \A i \in 1..Len(events) :
          /\ DOMAIN events[i] = {"receipt", "sender", "chain_id", "calldata"}
          /\ events[i].receipt = Receipt(Descriptor(confirmed[i]))
          /\ events[i].sender = sender
          /\ events[i].chain_id = chain_id
          /\ events[i].calldata = calldata

C6_Witness ==
    /\ Len(events) >= 2
    /\ pc = "caller"
    /\ ret = "Some"
    /\ pending # <<>>

\* C7: the stream has ended only if count >= max_transactions and nothing is
\* in flight; poll_next returns None only from the check at the top of its
\* loop; and whenever that check finds both conditions true it returns None.
C7_EndsExactlyWhenDone ==
    /\ [](ret = "None" => (count >= max_transactions /\ pending = <<>>))
    /\ [][ /\ (ret # "None" /\ ret' = "None") =>
                (pc = "check" /\ count >= max_transactions /\ pending = <<>>)
           /\ (pc = "check" /\ count >= max_transactions /\ pending = <<>>) =>
                (pc' = "caller" /\ ret' = "None")
           /\ (pc = "check" /\ ~(count >= max_transactions /\ pending = <<>>)) =>
                (pc' # "caller" /\ ret' = ret)
         ]_vars

C7_Witness ==
    /\ ret = "None"
    /\ pc = "caller"
    /\ pending = <<>>
    /\ count = max_transactions
    /\ max_transactions = 1

\* C8: once poll_next has returned None, every later step leaves the result
\* None, the events, the nonce counter, the sent counter and the in-flight
\* set as they are.
C8_DoneIsTerminal ==
    [][ ret = "None" =>
          /\ ret' = "None"
          /\ events' = events
          /\ confirmed' = confirmed
          /\ highest_nonce' = highest_nonce
          /\ count' = count
          /\ pending' = pending
      ]_vars

\* a further poll of the ended stream is under way
C8_Witness ==
    /\ ret = "None"
    /\ pc = "check"
    /\ Len(events) = max_transactions

\* C9: the step that dispatches an Ok(None) or Err result emits no event,
\* returns nothing to the caller, and leaves max_transactions, count and
\* highest_nonce unchanged; the same nonces are in flight after it as before.
C9_RetryFrame ==
    [][ RetryStep =>
          /\ events' = events
          /\ confirmed' = confirmed
          /\ ret' = ret
          /\ max_transactions' = max_transactions
          /\ count' = count
          /\ highest_nonce' = highest_nonce
          /\ config' = config
          /\ Len(pending') = Len(pending)
          /\ PendingNonces' = PendingNonces
      ]_vars

C9_Witness ==
    /\ Retried
    /\ pc = "check"
    /\ events # <<>>
    /\ count < max_transactions
    /\ last[1].nonce \in PendingNonces

\* C10: with max_transactions = 3 and concurrency = 3, as long as every
\* completed task completes with Ok(None), no event is emitted, the stream
\* has not ended, and every allocated nonce is in flight.
C10_NoReceiptForever ==
    [](max_transactions = 3 /\ concurrency = 3
         /\ (last = <<>> \/ last[1].res = NoReceipt))
      => [](/\ ret # "None"
            /\ events = <<>>
            /\ PendingNonces = Allocated
            /\ Len(pending) = count)

C10_Witness ==
    /\ max_transactions = 3
    /\ concurrency = 3
    /\ count = 3
    /\ last # <<>>
    /\ last[1].res = NoReceipt
    /\ pc = "check"
    /\ events = <<>>
    /\ PendingNonces = {nonce, nonce + 1, nonce + 2}
    /\ pending[3].nonce = nonce


\* C11: events are appended in the order in which tasks complete with a
\* receipt: a step changes the events only by appending the event of the task
\* it has just taken from the in-flight set, and whatever the nonces in
\* flight, any of them can be the next to complete with a receipt.
C11_ResolutionOrder ==
    /\ [](pc = "poll" => \A i \in 1..Len(pending) : ENABLED PollConfirmed(i))
    /\ [][ events' # events =>
             /\ last' # <<>>
             /\ last'[1].res = Confirmed
             /\ \E i \in 1..Len(pending) : pending[i].nonce = last'[1].nonce
             /\ events' = Append(events, MintEvent(Receipt(last'[1].tx)))
             /\ confirmed' = Append(confirmed, last'[1].nonce)
         ]_vars

\* the event of a later nonce is out, and the first nonce, still in flight,
\* has just been resubmitted
C11_Witness ==
    /\ Len(confirmed) = 1
    /\ confirmed[1] > nonce
    /\ Retried
    /\ last[1].nonce = nonce
    /\ nonce \in PendingNonces
    /\ pc = "check"

\* C12: the transaction a fill step starts is to the sender itself, of value
\* 0, with gas limit 22200, the highest_nonce of before the step as its nonce
\* and the calldata as its data; building it changes no field of the engine
\* (the step changes only what lines 346-348 change), and every transaction
\* in flight is the one built for its nonce.
C12_BuilderDescriptor ==
    /\ [](\A i \in 1..Len(pending) :
            pending[i].tx = [to |-> sender, value |-> 0, gas |-> 22200,
                             nonce |-> pending[i].nonce, data |-> calldata])
    /\ [][ Len(pending') > Len(pending) =>
             /\ pending'[Len(pending')].tx =
                   [to |-> sender, value |-> 0, gas |-> 22200,
                    nonce |-> highest_nonce, data |-> calldata]
             /\ SubSeq(pending', 1, Len(pending)) = pending
             /\ config' = config
             /\ <<events, confirmed, ret, last, pc>>' = <<events, confirmed, ret, last, pc>>
         ]_vars

C12_Witness ==
    /\ pc = "fill"
    /\ nonce = 1
    /\ Len(pending) = 2
    /\ pending[2].tx = [to |-> sender, value |-> 0, gas |-> 22200,
                        nonce |-> 2, data |-> calldata]
    /\ calldata = "data:,mintB"

\* C17: the nonce of a task that completed with a receipt is never in flight
\* again.
C17_ConfirmedRetired ==
    \A i \in 1..Len(confirmed) : confirmed[i] \notin PendingNonces

C17_Witness ==
    /\ Len(confirmed) >= 1
    /\ Len(pending) >= 1
    /\ pc = "poll"
    /\ count = max_transactions
    /\ ret = "Pending"

\* C18: no two tasks in flight have the same nonce.
C18_InFlightNoncesDistinct ==
    \A i, j \in 1..Len(pending) : i # j => pending[i].nonce # pending[j].nonce

C18_Witness ==
    /\ Len(pending) = 3
    /\ Retried
    /\ pc = "poll"
    /\ Cardinality(PendingNonces) = 3


\* the nonces started so far: in flight, or confirmed
Started == PendingNonces \cup {confirmed[i] : i \in 1..Len(confirmed)}

\* the safety part of C19: count is the number of distinct nonces started; it
\* changes only in a fill step, by one, together with a new nonce; a
\* resubmission leaves it alone; and once it equals max_transactions it never
\* changes and no nonce is allocated.
CountCountsNonces ==
    /\ [](count = Cardinality(Started) /\ count <= max_transactions)
    /\ [][ /\ count' # count =>
                /\ pc = "fill"
                /\ count' = count + 1
                /\ Started' = Started \cup {highest_nonce}
                /\ highest_nonce \notin Started
           /\ RetryStep => count' = count
           /\ count = max_transactions =>
                /\ count' = count
                /\ highest_nonce' = highest_nonce
                /\ Started' = Started
         ]_vars

\* C19 as stated: the above, and count does become equal to max_transactions.
C19_ReachesTargetOnce == CountCountsNonces /\ <>(count = max_transactions)

\* C19, amended: count counts allocated nonces, not attempts; it is
\* incremented only by the fill step; it becomes equal to max_transactions at
\* most once, and from that state on it never changes and no nonce is
\* allocated, however many retries follow.
C19_CountStable ==
    /\ CountCountsNonces
    /\ [][count' = max_transactions /\ count # max_transactions =>
             (pc = "fill" /\ count < max_transactions)]_vars

C19_Witness ==
    /\ count = max_transactions
    /\ max_transactions >= 2
    /\ Retried
    /\ pc = "check"
    /\ events # <<>>
    /\ Len(pending) >= 2

\* for nonce n: if from some state on the task of n never completes, n stays
\* in flight and the stream never ends
StalledStays(n) ==
    []((n \in PendingNonces /\ [](~(last # <<>> /\ last[1].nonce = n)))
         => [](n \in PendingNonces /\ ret # "None"))

\* C20: a task that never completes keeps its nonce in flight in every later
\* state, and the stream never ends.  Nothing but its own completion with a
\* receipt takes a nonce out of the in-flight set, and a task is added only
\* while fewer than concurrency tasks are in flight, so the slot is not given
\* to another nonce.
C20_NoTimeout ==
    /\ \A n \in 0..(MaxInitialNonce + MaxTransactions) : StalledStays(n)
    /\ [][ /\ \A n \in PendingNonces :
                n \notin PendingNonces' =>
                   /\ pc = "poll"
                   /\ last' # <<>>
                   /\ last'[1].nonce = n
                   /\ last'[1].res = Confirmed
           /\ Len(pending') > Len(pending) => Len(pending) < concurrency
           /\ Len(pending') < Len(pending) => events' # events
         ]_vars

\* every slot is taken, nonces remain to be allocated, nothing has completed
\* and the consumer is polling again
C20_Witness ==
    /\ ret = "Pending"
    /\ pc = "poll"
    /\ Len(pending) = concurrency
    /\ count < max_transactions
    /\ events = <<>>


\* C13: run_mint returns an error only from a step before the Inscriber is
\* built, and when it has, no nonce has been allocated, no task has been
\* started, the stream has not been polled and no event has been emitted.
C13_AbortBeforeEngine ==
    /\ [](pc = "failed" =>
            /\ pending = <<>>
            /\ count = 0
            /\ highest_nonce = 0
            /\ events = <<>>
            /\ confirmed = <<>>
            /\ last = <<>>
            /\ ret = "Init")
    /\ [][ pc' = "failed" /\ pc # "failed" =>
             /\ pc \in StartupStages
             /\ UNCHANGED <<pending, count, highest_nonce, events, confirmed>>
         ]_vars

\* the chain id and the signing key were fine; fetching the nonce failed
C13_Witness ==
    /\ pc = "failed"
    /\ chain_id \in StartupChainIds
    /\ sender \in Senders


\* a Deploy was parsed from json and written again
DeployRewritten ==
    /\ parsed # <<>>
    /\ parsed[1].ty = "Deploy"
    /\ parsed[1].res.ok
    /\ written # <<>>

\* s is a non-empty string of decimal digits
IsDecimal(s) == s # <<>> /\ \A i \in 1..Len(s) : IsDigit(s[i])

\* s is the decimal numeral of a number: no sign, no leading zero
IsNumeral(s) == IsDecimal(s) /\ (Len(s) > 1 => s[1] # "0")

\* the fields of j are exactly p, op = "deploy", tick, max, lim, once each,
\* all of them strings
DeployObject(j) ==
    /\ Len(j) = 5
    /\ {j[i].k : i \in 1..Len(j)} = DeployFields
    /\ \A i \in 1..Len(j) : j[i].v.t = "str"
    /\ Get(j, "op").s = <<"d", "e", "p", "l", "o", "y">>

\* the keys of j in the order they are written
KeyOrder(j) == [i \in 1..Len(j) |-> j[i].k]

\* the calldata string is the prefix followed by the JSON serialization
CalldataIsPrefixedJson ==
    (cdata # <<>> /\ written # <<>>) =>
        /\ Head(cdata) = CALL_DATA_PREFIX
        /\ Tail(cdata) = written

\* C14 as stated: the calldata string of a Deploy is "data:," followed by its
\* JSON serialization, and a Deploy deserialized from a JSON object with the
\* fields p, op = "deploy", tick, max, lim, the numbers as decimal strings, is
\* serialized to the same JSON text.
C14_RoundTrip ==
    /\ CalldataIsPrefixedJson
    /\ (DeployRewritten
        /\ DeployObject(json)
        /\ IsDecimal(Get(json, "max").s)
        /\ IsDecimal(Get(json, "lim").s)) => written = json

\* C14, amended: the calldata string of a Deploy is "data:," followed by its
\* JSON serialization, and a Deploy deserialized from a JSON object with the
\* fields p, op = "deploy", tick, max, lim in this order, max and lim being
\* decimal numerals without sign or leading zero, is serialized to the same
\* JSON text.
C14_CanonicalRoundTrip ==
    /\ CalldataIsPrefixedJson
    /\ (parsed # <<>> /\ parsed[1].ty = "Deploy"
        /\ DeployObject(json)
        /\ IsNumeral(Get(json, "max").s)
        /\ IsNumeral(Get(json, "lim").s)
        /\ KeyOrder(json) = <<"p", "op", "tick", "max", "lim">>) =>
           /\ parsed[1].res.ok
           /\ written # <<>> => written = json

\* the text of the repository's test with max = "70", read, written again
\* and turned into calldata
C14_Witness ==
    /\ DeployRewritten
    /\ cdata # <<>>
    /\ KeyOrder(json) = <<"p", "op", "tick", "max", "lim">>
    /\ Get(json, "max").t = "str"
    /\ Get(json, "max").s = <<"7", "0">>
    /\ written = json

\* C15: Op::from_str of the string to_string gives for an Op returns that Op;
\* from_str returns Ok(op) for every spelling of op's name in small and
\* capital letters, and Err for every string that spells none of the names.
C15_OpFromStr ==
    op_res # <<>> =>
        /\ op_val # "none" => (op_res[1].ok /\ op_res[1].v = op_val)
        /\ \A op \in Ops :
              op_in \in Spellings(op) => (op_res[1].ok /\ op_res[1].v = op)
        /\ (\A op \in Ops : op_in \notin Spellings(op)) => ~op_res[1].ok

\* "MiNt" was accepted as Mint
C15_Witness ==
    /\ op_res # <<>>
    /\ op_in = <<"M", "i", "N", "t">>
    /\ op_res[1].ok
    /\ op_res[1].v = "Mint"

\* C16: deserializing a Deploy, Mint or Transfer succeeds only when the field
\* op is a string that names that same operation; with an op that names
\* another operation, or none, the result is Err, which carries no value.
C16_OpMustMatch ==
    parsed # <<>> =>
        /\ parsed[1].res.ok =>
              /\ HasKey(json, "op")
              /\ Get(json, "op").t = "str"
              /\ Get(json, "op").s \in Spellings(parsed[1].ty)
        /\ ~parsed[1].res.ok => DOMAIN parsed[1].res = {"ok"}

\* a text that is a Mint but for its op, "deploy", was refused as a Mint
C16_Witness ==
    /\ parsed # <<>>
    /\ parsed[1].ty = "Mint"
    /\ json \in MintTexts
    /\ Get(json, "op").s = <<"d", "e", "p", "l", "o", "y">>
    /\ ~parsed[1].res.ok


\* C21: the payload is constant for the whole run: no step changes calldata,
\* and every descriptor in flight (first attempt or resubmission), the
\* descriptor of every completed task and every event carry it.
C21_PayloadConstant ==
    /\ [](/\ \A i \in 1..Len(pending) : pending[i].tx.data = calldata
          /\ \A i \in 1..Len(events) : events[i].calldata = calldata
          /\ last # <<>> => last[1].tx.data = calldata)
    /\ [][calldata' = calldata]_vars

\* an event was emitted and a resubmitted task is in flight beside a first
\* attempt
C21_Witness ==
    /\ calldata = "data:,mintB"
    /\ events # <<>>
    /\ Retried
    /\ Len(pending) >= 2
    /\ pending[Len(pending)].nonce = last[1].nonce

\* C22: whenever poll_next has returned Poll::Pending the in-flight set is
\* not empty and holds exactly `concurrency` tasks unless count has reached
\* max_transactions; the in-flight set is never polled while it is empty.
C22_WaitsOnFullSet ==
    /\ (pc = "caller" /\ ret = "Pending") =>
          /\ pending # <<>>
          /\ Len(pending) = concurrency \/ count = max_transactions
    /\ pc = "poll" => pending # <<>>

\* the engine waits with a free slot because every nonce has been allocated
C22_Witness ==
    /\ pc = "caller"
    /\ ret = "Pending"
    /\ Len(pending) < concurrency
    /\ count = max_transactions
    /\ events # <<>>


\* the nonces behind the events emitted so far
ConfirmedNonces == {confirmed[i] : i \in 1..Len(confirmed)}

\* C23: the number of events emitted plus the number of tasks in flight is
\* count, and every allocated nonce is either confirmed or in flight, never
\* neither and never both.
C23_NoncesConserved ==
    /\ Len(events) + Len(pending) = count
    /\ Allocated = ConfirmedNonces \cup PendingNonces
    /\ ConfirmedNonces \cap PendingNonces = {}

\* after a confirmation and a resubmission every nonce is accounted for
C23_Witness ==
    /\ events # <<>>
    /\ Retried
    /\ pc = "check"
    /\ count = 3
    /\ Len(pending) = 2

\* C24: count = highest_nonce - nonce and count <= max_transactions; the
\* nonces started are exactly nonce, ..., nonce + count - 1, the first of
\* them the nonce the Inscriber was built with.
C24_ContiguousRange ==
    /\ count = highest_nonce - nonce
    /\ count <= max_transactions
    /\ Started = {n \in nonce..(nonce + count) : n < nonce + count}
    /\ \A i \in 1..Len(pending) : nonce <= pending[i].nonce
    /\ count >= 1 => nonce \in Started

\* all three nonces from the initial nonce 1 have been allocated
C24_Witness ==
    /\ nonce = 1
    /\ count = 3
    /\ highest_nonce = 4
    /\ Started = {1, 2, 3}

\* C25: the step that handles a Confirmed result returns the event to the
\* caller without allocating: highest_nonce and count are unchanged and the
\* in-flight set only loses the confirmed task; outside poll_next nothing is
\* started, a task is added only in the fill loop of a later poll.
C25_ConfirmedDoesNotRefill ==
    [][ /\ events' # events =>
             /\ pc = "poll"
             /\ pc' = "caller"
             /\ ret' = "Some"
             /\ highest_nonce' = highest_nonce
             /\ count' = count
             /\ \E i \in 1..Len(pending) : pending' = RemoveAt(pending, i)
        /\ pc = "caller" =>
             /\ pc' = "check"
             /\ UNCHANGED <<pending, count, highest_nonce, events>>
        /\ (highest_nonce' # highest_nonce \/ count' # count) => pc = "fill"
      ]_vars

\* the consumer holds an event while a slot is free and nonces remain
C25_Witness ==
    /\ pc = "caller"
    /\ ret = "Some"
    /\ Len(pending) < concurrency
    /\ count < max_transactions
    /\ last # <<>>
    /\ last[1].res = Confirmed

=============================================================================
